---- MODULE Spec2Model ----
(***************************************************************************)
(* Model of the Redis shard router of                                      *)
(* src/redis/src/storages/redis/impl/shard.cpp: the Sentinel-mode Shard    *)
(* (routing of one command, and the reconciliation of the live connections *)
(* against the desired ConnectionInfo set).                                *)
(*                                                                         *)
(* Threads: one event thread (SetConnectionInfo, ProcessCreation,          *)
(* ProcessStateUpdate, Clean) and worker threads (AsyncCommand,            *)
(* SetCommandsBufferingSettings).  The reader-writer lock mutex_ is held   *)
(* in shared mode by a worker for the whole of its call, so the steps that *)
(* take it in exclusive mode are enabled only while no worker is inside    *)
(* one.  The state of a Redis handle (connection state, is-destroying      *)
(* flag, running-command count, ping latency) is not protected by mutex_   *)
(* and may change at any time.                                             *)
(*                                                                         *)
(* Indices are 0-based as in the source; instances[k + 1] is instances_[k].*)
(***************************************************************************)
EXTENDS Integers, Sequences, FiniteSets, TLC

\* ------------------------------------------------------------------ bounds
NumHosts == 2
MaxRunning == 1
MaxPing == 1
MaxSettings == 2

\* size_t has SizeBits bits.
SizeBits == 4

SizeModulus == 2 ^ SizeBits

\* ---------------------------------------------------------------- domains
Hosts == 1..NumHosts

RedisStates ==
  {"kInit", "kConnected", "kDisconnecting", "kDisconnected",
   "kDisconnectError", "kInitError"}

Strategies == {"kEveryDc", "kDefault", "kLocalDcConductor", "kNearestServerPing"}

\* ServerId::any, the "no pin" value of CommandControl::force_server_id.
kAnyServer == 0

\* SentinelImplBase::kDefaultPrevInstanceIdx, size_t(-1): no index.
kDefaultPrevInstanceIdx == -1

\* A null std::shared_ptr<Redis>.
kNullInstance == -1

ConnectionInfo == [host : Hosts, read_only : BOOLEAN]

\* ConnectionStatus: a ConnectionInfo and the Redis handle made for it.  The
\* handle's observable attributes are kept in the entry.
ConnectionStatus ==
  [info : ConnectionInfo, state : RedisStates, is_destroying : BOOLEAN,
   running : 0..MaxRunning, ping : 0..MaxPing]

\* Redis::GetServerId(): one id per handle; a shard holds at most one handle
\* per host, so the host stands for the id.
GetServerId(e) == e.info.host

ServerIds == 1..(NumHosts + 1)

\* The round-robin counter is only ever read modulo instances_.size(), so it
\* is kept modulo a common multiple of every possible size.
RECURSIVE Factorial(_)
Factorial(n) == IF n <= 1 THEN 1 ELSE n * Factorial(n - 1)

CurrentModulus == Factorial(NumHosts)

Min(a, b) == IF a < b THEN a ELSE b

\* ------------------------------------------------- std::set<ConnectionInfoInt>
\* The set is keyed by host: operator< of ConnectionInfoInt ignores read_only
\* (UpdateCleanWaitQueue finds an entry by key and then compares read_only).
KeyOf(s) == {i.host : i \in s}

\* std::set::find
SetFind(s, info) == {i \in s : i.host = info.host}

\* std::set::erase(key)
SetErase(s, info) == {i \in s : i.host # info.host}

\* std::set::insert: an element with an equal key is kept.
SetInsert(s, info) == IF info.host \in KeyOf(s) THEN s ELSE s \cup {info}

RECURSIVE InsertAll(_, _)
InsertAll(s, arr) ==
  IF arr = <<>> THEN s ELSE InsertAll(SetInsert(s, Head(arr)), Tail(arr))

\* Iteration over a std::set: ascending key order.
RECURSIVE SetToSeq(_)
SetToSeq(s) ==
  IF s = {} THEN <<>>
  ELSE LET m == CHOOSE i \in s : \A j \in s : i.host <= j.host
       IN  <<m>> \o SetToSeq(s \ {m})

RECURSIVE EraseAll(_, _)
EraseAll(s, entries) ==
  IF entries = <<>> THEN s
  ELSE EraseAll(SetErase(s, Head(entries).info), Tail(entries))

\* ------------------------------------------------------------- routing
\* CommandControl and the fields of Command that the shard reads.
\* The hosts of a vector of ConnectionStatus.
HostsOf(entries) == {entries[i].info.host : i \in DOMAIN entries}

Commands ==
  [read_only : BOOLEAN, strategy : Strategies,
   force_server_id : ServerIds \cup {kAnyServer},
   allow_reads_from_master : BOOLEAN, best_dc_count : 0..NumHosts,
   instance_idx : {kDefaultPrevInstanceIdx} \cup (0..NumHosts)]

Zeros(n) == [i \in 1..n |-> 0]

\* The pinned branch of GetAvailableServers: the first instance with the id.
PinnedServers(insts, id) ==
  LET hit == {i \in 1..Len(insts) : GetServerId(insts[i]) = id}
  IN  IF hit = {} THEN Zeros(Len(insts))
      ELSE LET first == CHOOSE i \in hit : \A j \in hit : i <= j
           IN  [i \in 1..Len(insts) |-> IF i = first THEN 1 ELSE 0]

\* The kEveryDc / kDefault branch of GetAvailableServers.
RoleServers(insts, with_masters, with_slaves) ==
  [i \in 1..Len(insts) |->
     IF insts[i].info.read_only
     THEN (IF with_slaves THEN 1 ELSE 0)
     ELSE (IF with_masters THEN 1 ELSE 0)]

\* std::sort of the pairs (ping, index): lexicographic order.
PairLess(p, q) == p[1] < q[1] \/ (p[1] = q[1] /\ p[2] < q[2])

RECURSIVE SortPairs(_)
SortPairs(S) ==
  IF S = {} THEN <<>>
  ELSE LET m == CHOOSE p \in S : \A q \in S \ {p} : PairLess(p, q)
       IN  <<m>> \o SortPairs(S \ {m})

\* The marking loop of GetNearestServersPing, from position i (1-based) of
\* sorted_by_ping with `count` marks left.
RECURSIVE MarkNearest(_, _, _, _, _, _, _)
MarkNearest(insts, sorted, i, count, with_masters, with_slaves, result) ==
  IF i > Len(sorted) \/ count <= 0 THEN result
  ELSE LET num == sorted[i][2]
           info == insts[num + 1].info
       IN  IF (with_slaves /\ info.read_only) \/ (with_masters /\ ~info.read_only)
           THEN MarkNearest(insts, sorted, i + 1, count - 1, with_masters,
                            with_slaves, [result EXCEPT ![num + 1] = 1])
           ELSE MarkNearest(insts, sorted, i + 1, count, with_masters,
                            with_slaves, result)

\* Variant of GetNearestServersPing that ignores best_dc_count; C13 must
\* tell it from GetNearestServersPing.
GetNearestServersPingAll(insts, control, with_masters, with_slaves) ==
  LET sorted_by_ping ==
        SortPairs({<<insts[i + 1].ping, i>> : i \in 0..(Len(insts) - 1)})
  IN  MarkNearest(insts, sorted_by_ping, 1, Len(insts), with_masters,
                  with_slaves, Zeros(Len(insts)))

GetNearestServersPing(insts, control, with_masters, with_slaves) ==
  LET count == IF control.best_dc_count = 0 THEN Len(insts)
               ELSE control.best_dc_count
      sorted_by_ping ==
        SortPairs({<<insts[i + 1].ping, i>> : i \in 0..(Len(insts) - 1)})
  IN  MarkNearest(insts, sorted_by_ping, 1, count, with_masters, with_slaves,
                  Zeros(Len(insts)))

GetAvailableServers(insts, control, with_masters, with_slaves) ==
  IF control.force_server_id # kAnyServer
  THEN PinnedServers(insts, control.force_server_id)
  ELSE IF control.strategy \in {"kEveryDc", "kDefault"}
       THEN RoleServers(insts, with_masters, with_slaves)
       ELSE GetNearestServersPing(insts, control, with_masters, with_slaves)

\* The test of one loop iteration of Shard::GetInstance: does instances_[k]
\* pass the skip / role / mask filter.
\* Variant of PassesFilter without the role test of line 127; C2 must
\* tell it from PassesFilter.
PassesFilterNoRole(insts, available_servers, may_fallback_to_any, skip_idx, read_only, k) ==
  ~(\/ k = skip_idx
    \/ (~may_fallback_to_any /\ available_servers[k + 1] = 0))

PassesFilter(insts, available_servers, may_fallback_to_any, skip_idx, read_only, k) ==
  ~(\/ k = skip_idx
    \/ (~read_only /\ insts[k + 1].info.read_only)
    \/ (~may_fallback_to_any /\ available_servers[k + 1] = 0))

\* Variant of Replaces in which a tie in running commands goes to the later
\* instance of the scan; C9 must tell it from Replaces.
ReplacesOnTie(insts, k, instance) ==
  /\ ~insts[k + 1].is_destroying
  /\ insts[k + 1].state = "kConnected"
  /\ \/ instance = kNullInstance
     \/ insts[instance + 1].is_destroying
     \/ insts[k + 1].running <= insts[instance + 1].running

\* Variant of Replaces without the health test of lines 135-136; C10 must
\* tell it from Replaces.
ReplacesAnyState(insts, k, instance) ==
  \/ instance = kNullInstance
  \/ insts[instance + 1].is_destroying
  \/ insts[k + 1].running < insts[instance + 1].running

\* Does instances_[k] replace the instance chosen so far.
Replaces(insts, k, instance) ==
  /\ ~insts[k + 1].is_destroying
  /\ insts[k + 1].state = "kConnected"
  /\ \/ instance = kNullInstance
     \/ insts[instance + 1].is_destroying
     \/ insts[k + 1].running < insts[instance + 1].running

\* The loop of Shard::GetInstance from iteration i on; `instance` is the
\* index of the handle chosen so far, `pidx` the value of *pinstance_idx.
RECURSIVE GetInstanceLoop(_, _, _, _, _, _, _, _, _)
GetInstanceLoop(insts, available_servers, may_fallback_to_any, skip_idx, read_only, cur, i, instance, pidx) ==
  LET end == Len(insts)
      instance_idx == (cur + i) % end
  IN  IF i >= end THEN [instance |-> instance, idx |-> pidx]
      ELSE IF /\ PassesFilter(insts, available_servers, may_fallback_to_any,
                              skip_idx, read_only, instance_idx)
              /\ Replaces(insts, instance_idx, instance)
           THEN GetInstanceLoop(insts, available_servers, may_fallback_to_any,
                                skip_idx, read_only, cur, i + 1, instance_idx,
                                instance_idx)
           ELSE GetInstanceLoop(insts, available_servers, may_fallback_to_any,
                                skip_idx, read_only, cur, i + 1, instance, pidx)

\* Shard::GetInstance with current_ already incremented to cur; pidx is the
\* caller's idx, left alone when nothing is found.
GetInstance(insts, available_servers, may_fallback_to_any, skip_idx, read_only, cur, pidx) ==
  GetInstanceLoop(insts, available_servers, may_fallback_to_any, skip_idx,
                  read_only, cur, 0, kNullInstance, pidx)

\* ------------------------------------------------------------ ClusterShard
\* A connection holder of a ClusterShard is named by a pointer: kMasterPtr
\* is master_, k > 0 is replicas_[k - 1].
kMasterPtr == 0

ClusterPtrs == 0..NumHosts

\* What ClusterShard reads from the Redis handle of a holder.
ClusterHandle == [state : {"kConnected", "kDisconnecting"}, is_destroying : BOOLEAN, is_syncing : BOOLEAN, running : 0..MaxRunning, ping : 0..MaxPing]

NoHandle == [state |-> "kConnected", is_destroying |-> FALSE, is_syncing |-> FALSE, running |-> 0, ping |-> 0]

\* current_ is kept modulo ClusterModulus, a multiple of every number of
\* candidates it is reduced by.
ClusterModulus == Factorial(NumHosts + 1)

Max(a, b) == IF a > b THEN a ELSE b

\* holder->Get(): the handle behind a pointer.
HolderGet(mst, reps, ptr) == IF ptr = kMasterPtr THEN mst ELSE reps[ptr]

\* Redis::GetServerId() of the handle behind a pointer.
ClusterServerId(ptr) == ptr + 1

\* Lines 445-457.
IsNearestServerPing(control) ==
  CASE control.strategy = "kEveryDc" -> FALSE
    [] control.strategy = "kDefault" -> FALSE
    [] control.strategy = "kLocalDcConductor" -> TRUE
    [] control.strategy = "kNearestServerPing" -> TRUE

\* Lines 712-719: the replicas in the order of replicas_, then the master.
MakeReadonlyWithMasters(reps) == [k \in 1..(Len(reps) + 1) |-> IF k <= Len(reps) THEN k ELSE kMasterPtr]

\* Line 635: a copy of replicas_.
ReplicaPtrs(reps) == [k \in 1..Len(reps) |-> k]

\* The orders a vector of pointers can be put in.
VectorOrders(v) == {w \in [DOMAIN v -> {v[k] : k \in DOMAIN v}] : \A k \in DOMAIN v : \E j \in DOMAIN v : w[j] = v[k]}

\* Variant of ClusterShardGetNearestServersPing that leaves the vector as
\* it is; C28 must tell it from ClusterShardGetNearestServersPing.
ClusterShardGetNearestServersPingUnsorted(mst, reps, best_dc_count, insts) == {insts}

\* Lines 575-590: what std::partial_sort can leave: the first num_instances
\* places hold the lowest pings in ascending order, the other places hold
\* the remaining pointers in an order the library does not specify.
ClusterShardGetNearestServersPing(mst, reps, best_dc_count, insts) ==
  LET num_instances == Min(best_dc_count, Len(insts))
      Ping(ptr) == HolderGet(mst, reps, ptr).ping
  IN IF num_instances = 0 /\ num_instances = Len(insts)
     THEN {insts}
     ELSE {w \in VectorOrders(insts) :
             /\ \A i \in 1..(num_instances - 1) : Ping(w[i]) <= Ping(w[i + 1])
             /\ \A i \in 1..num_instances : \A j \in (num_instances + 1)..Len(insts) : Ping(w[i]) <= Ping(w[j])}

\* Lines 620-639: the candidate vectors the call can get.
ClusterShardGetAvailableServers(mst, reps, control) ==
  IF ~IsNearestServerPing(control)
  THEN {MakeReadonlyWithMasters(reps)}
  ELSE IF control.allow_reads_from_master
       THEN ClusterShardGetNearestServersPing(mst, reps, control.best_dc_count, MakeReadonlyWithMasters(reps))
       ELSE {Append(w, kMasterPtr) : w \in ClusterShardGetNearestServersPing(mst, reps, control.best_dc_count, ReplicaPtrs(reps))}

\* Variant of ClusterShardGetAvailableServer that answers a writable
\* command like a read-only one; C21 must tell it from
\* ClusterShardGetAvailableServer.
ClusterShardGetAvailableServerByPin(reps, control, read_only) ==
  IF control.force_server_id = kAnyServer THEN kNullInstance
  ELSE IF \E ptr \in 0..Len(reps) : ClusterServerId(ptr) = control.force_server_id
       THEN CHOOSE ptr \in 0..Len(reps) : ClusterServerId(ptr) = control.force_server_id
       ELSE kNullInstance

\* Lines 592-618: the master for a writable command, else the holder whose
\* server id is the pin (the master first, then replicas_ in order).
ClusterShardGetAvailableServer(reps, control, read_only) ==
  IF ~read_only THEN kMasterPtr
  ELSE IF control.force_server_id = kAnyServer THEN kNullInstance
  ELSE IF ClusterServerId(kMasterPtr) = control.force_server_id THEN kMasterPtr
  ELSE IF \E k \in 1..Len(reps) : ClusterServerId(k) = control.force_server_id
       THEN CHOOSE k \in 1..Len(reps) : ClusterServerId(k) = control.force_server_id /\ \A j \in 1..(k - 1) : ClusterServerId(j) # control.force_server_id
       ELSE kNullInstance

\* size_t arithmetic: sums and differences are taken modulo SizeModulus.
Wrap(x) == x % SizeModulus

\* Lines 692-694: the count GetStartIndex reduces by.
StartCount(control, att, prev_instance_idx, servers_count) ==
  IF prev_instance_idx = kDefaultPrevInstanceIdx /\ att = 0 /\ ~control.allow_reads_from_master
  THEN Max(Wrap(servers_count - 1), 1)
  ELSE servers_count

\* Lines 680-682, 699-700: std::min(best_dc_count, servers_count), where a
\* best_dc_count of 0 stands for the largest size_t.
StartBest(control, count) == IF control.best_dc_count = 0 THEN count ELSE Min(control.best_dc_count, count)

\* Lines 676-710.
GetStartIndex(control, att, is_nearest_ping_server, prev_instance_idx, cur, servers_count) ==
  LET first_try == prev_instance_idx = kDefaultPrevInstanceIdx
      count == StartCount(control, att, prev_instance_idx, servers_count)
  IN IF is_nearest_ping_server
     THEN Wrap(att + (IF first_try THEN cur % StartBest(control, count) ELSE Wrap(prev_instance_idx + 1))) % count
     ELSE IF first_try THEN Wrap(cur + att) % count
     ELSE Wrap(Wrap(prev_instance_idx + 1) + att) % count

\* Variant of GetInstanceEnd that does not bound the window by the size of
\* the vector; C36 must tell it from GetInstanceEnd.
GetInstanceEndUnbounded(insts, att, is_nearest_ping_server, best_dc_count) ==
  IF is_nearest_ping_server /\ att = 0 /\ best_dc_count # 0 THEN best_dc_count ELSE Len(insts)

\* Lines 646-648: the number of places GetInstance looks at.
GetInstanceEnd(insts, att, is_nearest_ping_server, best_dc_count) ==
  IF is_nearest_ping_server /\ att = 0 /\ best_dc_count # 0 THEN Min(Len(insts), best_dc_count) ELSE Len(insts)

\* Lines 653-655: may the handle be taken.
ClusterEligible(h) == ~h.is_destroying /\ h.state = "kConnected" /\ ~h.is_syncing

\* Variant of ClusterReplaces that takes every usable handle it passes; C29
\* must tell it from ClusterReplaces.
ClusterReplacesAlways(mst, reps, cur_inst, ret) == ClusterEligible(HolderGet(mst, reps, cur_inst))

\* Lines 653-657: the test of the loop body of GetInstance.
ClusterReplaces(mst, reps, cur_inst, ret) ==
  /\ ClusterEligible(HolderGet(mst, reps, cur_inst))
  /\ \/ ret = kNullInstance
     \/ HolderGet(mst, reps, ret).is_destroying
     \/ HolderGet(mst, reps, cur_inst).running < HolderGet(mst, reps, ret).running

\* Lines 649-661: the loop of GetInstance from step i.
RECURSIVE ClusterShardGetInstanceLoop(_, _, _, _, _, _, _, _)
ClusterShardGetInstanceLoop(mst, reps, insts, start_idx, end, i, ret, pidx) ==
  IF i >= end THEN [instance |-> ret, idx |-> pidx]
  ELSE LET at == (start_idx + i) % end
       IN IF ClusterReplaces(mst, reps, insts[at + 1], ret)
          THEN ClusterShardGetInstanceLoop(mst, reps, insts, start_idx, end, i + 1, insts[at + 1], at)
          ELSE ClusterShardGetInstanceLoop(mst, reps, insts, start_idx, end, i + 1, ret, pidx)

\* Lines 641-663.
ClusterShardGetInstance(mst, reps, insts, start_idx, att, is_nearest_ping_server, best_dc_count, pidx) ==
  ClusterShardGetInstanceLoop(mst, reps, insts, start_idx, GetInstanceEnd(insts, att, is_nearest_ping_server, best_dc_count), 0, kNullInstance, pidx)

\* --------------------------------------------------------------- state
VARIABLES
  connection_infos,   \* Shard::connection_infos_
  instances,          \* Shard::instances_
  clean_wait,         \* Shard::clean_wait_
  destroying,         \* Shard::destroying_
  prev_connected,     \* Shard::prev_connected_
  current,            \* Shard::current_ (modulo CurrentModulus)
  epc,                \* event thread: "idle", "update" (ProcessCreation before
                      \* UpdateCleanWaitQueue), "notify" (ProcessStateUpdate
                      \* after its locked block)
  add_clean_wait,     \* ProcessCreation: the entries made, not yet queued
  instances_changed,  \* ProcessStateUpdate: local
  new_connected,      \* ProcessStateUpdate: local
  repeated,           \* the latest reconcile call directly followed a
                      \* completed call of the same operation
  wpc,                \* worker: "idle", or "loop" (inside AsyncCommand's
                      \* attempt loop, mutex_ held shared)
  command,            \* AsyncCommand: *command (the caller keeps it)
  arg_idx,            \* command->instance_idx as the caller passed it
  tried,              \* the indices of the handles the running (or latest)
                      \* call has offered the command to
  available_servers,  \* AsyncCommand: local
  attempt,            \* AsyncCommand: local
  idx,                \* AsyncCommand: local
  commands_buffering_settings,  \* Shard::commands_buffering_settings_
                      \* (0: none set)
  buffering,          \* per host, the settings last applied to the handle
                      \* made for it (0: none)
  bpc,                \* worker in SetCommandsBufferingSettings: "idle", or
                      \* "store" (handles done, mutex_ still held shared)
  settings,           \* SetCommandsBufferingSettings: its argument
  master,             \* ClusterShard::master_: its handle
  replicas,           \* ClusterShard::replicas_: their handles
  cluster_current,    \* ClusterShard::current_ (modulo ClusterModulus)
  local_current,      \* ClusterShard::AsyncCommand: local current
  cluster_servers,    \* ClusterShard::AsyncCommand: local available_servers
  last_connected_time,  \* Shard::last_connected_time_ and
  last_ready_time,    \* Shard::last_ready_time_, kept up to their order:
                      \* the earlier one is 0, equal ones are both 0
  reported,           \* the argument of the latest call of
                      \* ready_change_callback_ ("none": never called)
  last                \* what the latest step did: its operation and outputs

shardVars == <<connection_infos, instances, clean_wait, destroying, prev_connected>>

eventVars == <<epc, add_clean_wait, instances_changed, new_connected, repeated>>

workerVars == <<wpc, command, arg_idx, tried, available_servers, attempt, idx>>

bufferingVars == <<commands_buffering_settings, buffering, bpc, settings>>

clusterVars == <<master, replicas, cluster_current, local_current, cluster_servers>>

readyVars == <<last_connected_time, last_ready_time, reported>>

vars == <<shardVars, current, eventVars, workerVars, bufferingVars, clusterVars, readyVars, last>>

\* The steps that run with mutex_ locked in exclusive mode: the locked
\* block of ProcessStateUpdate (lines 260-302), that of
\* UpdateCleanWaitQueue (lines 402-422), SetConnectionInfo from line 324
\* and the block of Clean (lines 212-216).
HoldsUniqueLock(op) == op \in {"ProcessStateUpdateLocked", "ProcessCreation", "SetConnectionInfo", "Clean"}

\* The record of a step: the operation, its return value ("none" when it has
\* not returned), the readiness callback's argument, what became of an
\* exception the callback threw ("caught", or "escaped" the operation), the
\* emissions of
\* signal_instance_ready_, the attempt made (none: -1), the index of the
\* handle the command was offered to and whether that handle accepted it,
\* whether the attempt logged the fallback warning, and for an attempt of
\* ClusterShard the instance_idx it read, its start index and the place of
\* the handle it selected, whether the step set last_ready_time_, and for
\* a selection the reads it makes (pairs of the size of the vector and the
\* index read) and the divisors of its modulo operations.
Did(op) == [op |-> op, ret |-> "none", cb |-> "none", exc |-> "none", sig |-> <<>>, att |-> -1, offer |-> kNullInstance, accepted |-> FALSE, warn |-> FALSE, before |-> -1, start |-> -1, pos |-> -1, ready |-> FALSE, reads |-> {}, divisors |-> {}]

Bool(b) == IF b THEN "true" ELSE "false"

\* -------------------------------------------------------- Shard::AsyncCommand
NoCommand == [read_only |-> TRUE, strategy |-> "kDefault", force_server_id |-> kAnyServer, allow_reads_from_master |-> FALSE, best_dc_count |-> 0, instance_idx |-> kDefaultPrevInstanceIdx]

\* Lines 165-166: the shard is destroying, return false.
AsyncCommandDestroying(cmds) ==
  /\ wpc = "idle"
  /\ destroying
  /\ \E c \in cmds :
       /\ command' = c
       /\ arg_idx' = c.instance_idx
       /\ tried' = {}
  /\ last' = [Did("AsyncCommand") EXCEPT !.ret = "false"]
  /\ UNCHANGED <<shardVars, current, eventVars, wpc, available_servers, attempt, idx, bufferingVars, clusterVars, readyVars>>

\* Variant of AsyncCommandBegin without the destroying_ test of line 166;
\* C1 must tell it from AsyncCommandBegin.
AsyncCommandBeginUnguarded(cmds) ==
  /\ wpc = "idle"
  /\ \E c \in cmds :
       /\ command' = c
       /\ arg_idx' = c.instance_idx
       /\ tried' = {}
       /\ available_servers' = GetAvailableServers(instances, c, ~c.read_only \/ c.allow_reads_from_master, c.read_only)
  /\ wpc' = "loop"
  /\ attempt' = 0
  /\ idx' = 0
  /\ last' = Did("AsyncCommandBegin")
  /\ UNCHANGED <<shardVars, current, eventVars, bufferingVars, clusterVars, readyVars>>

\* Lines 162-173: take mutex_ shared, compute available_servers.
AsyncCommandBegin(cmds) ==
  /\ wpc = "idle"
  /\ ~destroying
  /\ \E c \in cmds :
       /\ command' = c
       /\ arg_idx' = c.instance_idx
       /\ tried' = {}
       /\ available_servers' = GetAvailableServers(instances, c, ~c.read_only \/ c.allow_reads_from_master, c.read_only)
  /\ wpc' = "loop"
  /\ attempt' = 0
  /\ idx' = 0
  /\ last' = Did("AsyncCommandBegin")
  /\ UNCHANGED <<shardVars, current, eventVars, bufferingVars, clusterVars, readyVars>>

\* Variant of MaxAttempts with one more attempt; C4 must tell it from
\* MaxAttempts.
MaxAttemptsOneMore == Len(instances) + 2

MaxAttempts == Len(instances) + 1

\* Variant of SkipIdx that never skips; C8 must tell it from SkipIdx.
SkipIdxNever == kDefaultPrevInstanceIdx

SkipIdx == IF attempt = 0 THEN command.instance_idx ELSE kDefaultPrevInstanceIdx

\* Variant of MayFallbackToAny that falls back on attempt 0 too; C27 must
\* tell it from MayFallbackToAny.
MayFallbackToAnyAttempt == command.force_server_id = kAnyServer

\* Variant of MayFallbackToAny that forgets the pin; C3 must tell it from
\* MayFallbackToAny.
MayFallbackToAnyPinned == attempt # 0

MayFallbackToAny == attempt # 0 /\ command.force_server_id = kAnyServer

\* What GetInstance returns in the current attempt.
Selected == GetInstance(instances, available_servers, MayFallbackToAny, SkipIdx, command.read_only, current + 1, idx)

\* Variant of FallbackWarning that warns for every selected instance; C30
\* must tell it from FallbackWarning.
FallbackWarningAnySelected == Selected.instance # kNullInstance

\* Lines 189-194: an instance is selected and it is not marked in
\* available_servers: the "falling back to any server" warning is logged.
FallbackWarning ==
  /\ Selected.instance # kNullInstance
  /\ Selected.idx >= Len(available_servers) \/ available_servers[Selected.idx + 1] = 0

\* Leaving AsyncCommand: the locals go, the lock is released.
Return ==
  /\ wpc' = "idle"
  /\ available_servers' = <<>>
  /\ attempt' = 0
  /\ idx' = 0

\* Lines 174-197: one iteration of the attempt loop.  The handle's own
\* AsyncCommand accepts or refuses the command.
AsyncCommandAttempt ==
  /\ wpc = "loop"
  /\ attempt < MaxAttempts
  /\ current' = (current + 1) % CurrentModulus
  /\ command' = [command EXCEPT !.instance_idx = Selected.idx]
  /\ \/ /\ Selected.instance # kNullInstance
        /\ last' = [Did("AsyncCommand") EXCEPT !.ret = "true", !.att = attempt, !.offer = Selected.instance, !.accepted = TRUE, !.warn = FallbackWarning]
        /\ Return
     \/ /\ last' = [Did("AsyncCommandAttempt") EXCEPT !.att = attempt, !.offer = Selected.instance, !.warn = FallbackWarning]
        /\ idx' = Selected.idx
        /\ attempt' = attempt + 1
        /\ UNCHANGED <<wpc, available_servers>>
  /\ tried' = tried \cup ({Selected.instance} \ {kNullInstance})
  /\ UNCHANGED <<shardVars, eventVars, arg_idx, bufferingVars, clusterVars, readyVars>>

\* Lines 199-203: every attempt failed.
AsyncCommandFail ==
  /\ wpc = "loop"
  /\ attempt >= MaxAttempts
  /\ last' = [Did("AsyncCommand") EXCEPT !.ret = "false"]
  /\ Return
  /\ UNCHANGED <<shardVars, current, eventVars, command, arg_idx, tried, bufferingVars, clusterVars, readyVars>>

\* No worker holds mutex_ in shared mode: a std::unique_lock can be taken.
NoSharedLock == wpc = "idle" /\ bpc = "idle"

\* ---------------------------------------------------- the Redis handles
\* The state changes a Redis handle makes by itself (connect, disconnect).
NextRedisStates(st) ==
  CASE st = "kInit" -> {"kConnected", "kInitError"}
    [] st = "kConnected" -> {"kDisconnecting"}
    [] OTHER -> {}

HandleStateChange ==
  /\ \/ \E i \in DOMAIN instances : \E st \in NextRedisStates(instances[i].state) :
          /\ instances' = [instances EXCEPT ![i].state = st]
          /\ UNCHANGED clean_wait
     \/ \E i \in DOMAIN clean_wait : \E st \in NextRedisStates(clean_wait[i].state) :
          /\ clean_wait' = [clean_wait EXCEPT ![i].state = st]
          /\ UNCHANGED instances
  /\ last' = Did("HandleStateChange")
  /\ UNCHANGED <<connection_infos, destroying, prev_connected, current, eventVars, workerVars, bufferingVars, clusterVars, readyVars>>

\* ------------------------------------------------ Shard::SetConnectionInfo
SetConnectionInfo(info_array) ==
  /\ epc = "idle"
  /\ NoSharedLock
  /\ LET new_info == InsertAll({}, info_array)
     IN  IF new_info = connection_infos
         THEN /\ last' = [Did("SetConnectionInfo") EXCEPT !.ret = "false"]
              /\ UNCHANGED connection_infos
         ELSE /\ last' = [Did("SetConnectionInfo") EXCEPT !.ret = "true"]
              /\ connection_infos' = new_info
  /\ UNCHANGED <<instances, clean_wait, destroying, prev_connected, current, eventVars, workerVars, bufferingVars, clusterVars, readyVars>>

\* ------------------------------------------------------------ Shard::Clean
Clean ==
  /\ epc = "idle"
  /\ NoSharedLock
  /\ destroying' = TRUE
  /\ instances' = <<>>
  /\ clean_wait' = <<>>
  /\ last' = Did("Clean")
  /\ UNCHANGED <<connection_infos, prev_connected, current, eventVars, workerVars, bufferingVars, clusterVars, readyVars>>

\* -------------------------------------------------- Shard::ProcessCreation
\* Variant of GetConnectionInfosToCreate without the pass over instances_
\* of lines 389-390; C5 must tell it from GetConnectionInfosToCreate.
GetConnectionInfosToCreateNoInstances == EraseAll(connection_infos, clean_wait)

\* Variant of GetConnectionInfosToCreate without the pass over clean_wait_
\* of lines 391-392; C7 must tell it from GetConnectionInfosToCreate.
GetConnectionInfosToCreateNoCleanWait == EraseAll(connection_infos, instances)

GetConnectionInfosToCreate == EraseAll(EraseAll(connection_infos, instances), clean_wait)

\* Lines 231-249: the entry made for one ConnectionInfo; Connect() starts
\* the handle in kInit.
NewEntry(id) == [info |-> id, state |-> "kInit", is_destroying |-> FALSE, running |-> 0, ping |-> 0]

\* Lines 222-250.
ProcessCreationBegin ==
  /\ epc = "idle"
  /\ LET need_to_create == SetToSeq(GetConnectionInfosToCreate)
     IN  /\ add_clean_wait' = [i \in 1..Len(need_to_create) |-> NewEntry(need_to_create[i])]
         /\ buffering' = [h \in Hosts |-> IF h \in KeyOf(GetConnectionInfosToCreate) THEN commands_buffering_settings ELSE buffering[h]]
  /\ repeated' = (last.op = "ProcessCreation")
  /\ epc' = "update"
  /\ last' = Did("ProcessCreationBegin")
  /\ UNCHANGED <<shardVars, current, instances_changed, new_connected, workerVars, commands_buffering_settings, bpc, settings, clusterVars, readyVars>>

\* Lines 407-421, for one entry of instances_.
InDesiredSet(e) == SetFind(connection_infos, e.info) # {}

DesiredReadOnly(e) == (CHOOSE c \in SetFind(connection_infos, e.info) : TRUE).read_only

WithDesiredRole(e) == [e EXCEPT !.info.read_only = DesiredReadOnly(e)]

\* Variant of InstancesAfterUpdate that leaves the read_only flags alone;
\* C19 must tell it from InstancesAfterUpdate.
InstancesAfterUpdateNoRole == SelectSeq(instances, InDesiredSet)

\* Shard::UpdateCleanWaitQueue, the value of instances_ it leaves.
InstancesAfterUpdate ==
  LET kept == SelectSeq(instances, InDesiredSet)
  IN  [i \in 1..Len(kept) |-> WithDesiredRole(kept[i])]

\* Variant of CleanWaitAfterUpdate that loses the entries just made; C18
\* must tell it from CleanWaitAfterUpdate.
CleanWaitAfterUpdateNoAppend == clean_wait

\* Shard::UpdateCleanWaitQueue, the value of clean_wait_ it leaves.
CleanWaitAfterUpdate == clean_wait \o add_clean_wait

\* Line 252: Shard::UpdateCleanWaitQueue.
ProcessCreationUpdate ==
  /\ epc = "update"
  /\ NoSharedLock
  /\ clean_wait' = CleanWaitAfterUpdate
  /\ instances' = InstancesAfterUpdate
  /\ last' = [Did("ProcessCreation") EXCEPT !.ret = Bool(InstancesAfterUpdate # instances)]
  /\ add_clean_wait' = <<>>
  /\ epc' = "idle"
  /\ UNCHANGED <<connection_infos, destroying, prev_connected, current, instances_changed, new_connected, repeated, workerVars, bufferingVars, clusterVars, readyVars>>

\* ----------------------------------------------- Shard::ProcessStateUpdate
IsConnected(e) == e.state = "kConnected"

NotConnected(e) == e.state # "kConnected"

IsTerminal(e) == e.state \in {"kDisconnecting", "kDisconnected", "kDisconnectError", "kInitError"}

\* Variant of StaysInCleanWait that keeps the entries in a terminal state;
\* C34 must tell it from StaysInCleanWait.
StaysInCleanWaitTerminal(e) == ~IsConnected(e)

\* Lines 290-293: the entries the second loop leaves in clean_wait_.
StaysInCleanWait(e) == ~IsConnected(e) /\ ~IsTerminal(e)

\* clean_wait_ after the first loop (lines 262-269).
CleanWaitAfterDemotion == clean_wait \o SelectSeq(instances, NotConnected)

\* Variant of Promoted that stops at the first Connected entry; C16 must
\* tell it from Promoted.
PromotedFirst == IF SelectSeq(CleanWaitAfterDemotion, IsConnected) = <<>> THEN <<>> ELSE <<Head(SelectSeq(CleanWaitAfterDemotion, IsConnected))>>

\* The entries the second loop (lines 271-295) moves to instances_.
Promoted == SelectSeq(CleanWaitAfterDemotion, IsConnected)

\* The entries the second loop moves to erase_clean_wait (lines 283-289).
ErasedCleanWait == SelectSeq(CleanWaitAfterDemotion, IsTerminal)

\* Line 279: a promotion sets last_connected_time_ to now(), which is later
\* than a last_ready_time_ set by an earlier call.
ConnectedTimeAfterLoop == IF Promoted # <<>> THEN 1 ELSE last_connected_time

ReadyTimeAfterLoop == IF Promoted # <<>> THEN 0 ELSE last_ready_time

\* Line 298: the test that guards the assignment to last_ready_time_.
ReadyTimeAdvances == ErasedCleanWait # <<>> /\ ConnectedTimeAfterLoop > ReadyTimeAfterLoop

\* Lines 259-302: the block under the exclusive lock.  now() at line 300
\* is not earlier than the now() of line 279 in the same call.
ProcessStateUpdateLocked ==
  /\ epc = "idle"
  /\ NoSharedLock
  /\ IF ReadyTimeAdvances
     THEN /\ last_connected_time' = 0
          /\ last_ready_time' \in (IF Promoted # <<>> THEN {0, 1} ELSE {1})
     ELSE /\ last_connected_time' = ConnectedTimeAfterLoop
          /\ last_ready_time' = ReadyTimeAfterLoop
  /\ UNCHANGED reported
  /\ instances' = SelectSeq(instances, IsConnected) \o Promoted
  /\ clean_wait' = SelectSeq(CleanWaitAfterDemotion, StaysInCleanWait)
  /\ instances_changed' = (SelectSeq(instances, NotConnected) # <<>> \/ Promoted # <<>>)
  /\ new_connected' = (instances' # <<>>)
  /\ repeated' = (last.op = "ProcessStateUpdate")
  /\ last' = [Did("ProcessStateUpdateLocked") EXCEPT !.sig = [i \in 1..Len(Promoted) |-> <<GetServerId(Promoted[i]), Promoted[i].info.read_only>>], !.ready = ReadyTimeAdvances]
  /\ epc' = "notify"
  /\ UNCHANGED <<connection_infos, destroying, prev_connected, current, add_clean_wait, workerVars, bufferingVars, clusterVars>>

\* What a call of ready_change_callback_ can do: return, throw an exception
\* derived from std::exception, or throw any other object.
CallbackOutcomes == {"returns", "throws std::exception", "throws other"}

\* Lines 304-316: the readiness callback, made with mutex_ released.  The
\* handler of line 309 catches std::exception only; any other object leaves
\* ProcessStateUpdate at line 308.  The step is named "ProcessStateUpdate"
\* when nothing ran since the locked block.
ProcessStateUpdateNotify ==
  /\ epc = "notify"
  /\ \E outcome \in (IF prev_connected # new_connected THEN CallbackOutcomes ELSE {"returns"}) :
       IF outcome = "throws other"
       THEN /\ last' = [Did("ProcessStateUpdateThrew") EXCEPT !.cb = Bool(new_connected), !.exc = "escaped"]
            /\ UNCHANGED prev_connected
       ELSE /\ prev_connected' = new_connected
            /\ last' = [Did(IF last.op = "ProcessStateUpdateLocked" THEN "ProcessStateUpdate" ELSE "ProcessStateUpdateLate")
                          EXCEPT !.ret = Bool(instances_changed),
                                 !.cb = IF prev_connected # new_connected THEN Bool(new_connected) ELSE "none",
                                 !.exc = IF outcome = "returns" THEN "none" ELSE "caught"]
  /\ reported' = (IF prev_connected # new_connected THEN Bool(new_connected) ELSE reported)
  /\ instances_changed' = FALSE
  /\ new_connected' = FALSE
  /\ epc' = "idle"
  /\ UNCHANGED <<connection_infos, instances, clean_wait, destroying, current, add_clean_wait, repeated, workerVars, bufferingVars, clusterVars, last_connected_time, last_ready_time>>

\* ------------------------------------------------------- specifications
\* The arrays given to SetConnectionInfo: each host at most once.
InfoArrays == {SetToSeq(s) : s \in {t \in SUBSET ConnectionInfo : \A a, b \in t : a.host = b.host => a = b}}

\* Shard::Shard: the desired set comes from the options, nothing is connected.
Constructed(arrays) ==
  /\ connection_infos \in {InsertAll({}, a) : a \in arrays}
  /\ instances = <<>>
  /\ clean_wait = <<>>
  /\ destroying = FALSE
  /\ prev_connected = FALSE
  /\ current = 0
  /\ epc = "idle"
  /\ add_clean_wait = <<>>
  /\ instances_changed = FALSE
  /\ new_connected = FALSE
  /\ repeated = FALSE
  /\ wpc = "idle"
  /\ command = NoCommand
  /\ arg_idx = kDefaultPrevInstanceIdx
  /\ tried = {}
  /\ available_servers = <<>>
  /\ attempt = 0
  /\ idx = 0
  /\ commands_buffering_settings = 0
  /\ buffering = [h \in Hosts |-> 0]
  /\ bpc = "idle"
  /\ settings = 0
  /\ master = NoHandle
  /\ replicas = <<>>
  /\ cluster_current = 0
  /\ local_current = 0
  /\ cluster_servers = <<>>
  /\ last_connected_time = 0
  /\ last_ready_time = 0
  /\ reported = "none"
  /\ last = Did("Shard")

Init == Constructed(InfoArrays)

\* The event thread reconciling the shard while the handles change state.
Next ==
  \/ \E a \in InfoArrays : SetConnectionInfo(a)
  \/ ProcessCreationBegin
  \/ ProcessCreationUpdate
  \/ ProcessStateUpdateLocked
  \/ ProcessStateUpdateNotify
  \/ Clean
  \/ HandleStateChange

Spec == Init /\ [][Next]_vars

\* ---------------------------------------------------------------- routing
\* Does the command take the nearest-ping branch of GetAvailableServers.
ReadsPing(c) == c.force_server_id = kAnyServer /\ c.strategy \in {"kLocalDcConductor", "kNearestServerPing"}

\* The commands routed.  A field the code does not read for the command is
\* left at its default: strategy, best_dc_count and allow_reads_from_master
\* of a pinned command, best_dc_count outside the nearest-ping strategies,
\* allow_reads_from_master of a writable command.
RouteCommands ==
  {c \in Commands :
     /\ c.instance_idx < NumHosts
     /\ c.force_server_id # kAnyServer => c.strategy = "kDefault" /\ c.best_dc_count = 0 /\ ~c.allow_reads_from_master
     /\ ~ReadsPing(c) => c.best_dc_count = 0
     /\ ~c.read_only => ~c.allow_reads_from_master}

\* The values instances_ may have when a command arrives: any number of
\* handles, in any role, connected or not, being destroyed or not, with any
\* load; the handle of instances_[k] is for host k + 1.
RouteInstances ==
  UNION {{f \in [1..n -> ConnectionStatus] :
            \A i \in 1..n :
              /\ f[i].info.host = i
              /\ f[i].state \in {"kConnected", "kDisconnecting"}
              /\ f[i].is_destroying => f[i].state = "kConnected"} :
         n \in 0..NumHosts}

\* One call of AsyncCommand on a shard in any condition.  The ping
\* latencies are read only on the nearest-ping branch.
InitRoute ==
  /\ command \in RouteCommands
  /\ instances \in RouteInstances
  /\ ~ReadsPing(command) => \A i \in DOMAIN instances : instances[i].ping = 0
  /\ connection_infos = {instances[i].info : i \in DOMAIN instances}
  /\ clean_wait = <<>>
  /\ destroying = FALSE
  /\ prev_connected = (instances # <<>>)
  /\ current \in 0..(CurrentModulus - 1)
  /\ epc = "idle"
  /\ add_clean_wait = <<>>
  /\ instances_changed = FALSE
  /\ new_connected = FALSE
  /\ repeated = FALSE
  /\ wpc = "idle"
  /\ arg_idx = command.instance_idx
  /\ tried = {}
  /\ available_servers = <<>>
  /\ attempt = 0
  /\ idx = 0
  /\ commands_buffering_settings = 0
  /\ buffering = [h \in Hosts |-> 0]
  /\ bpc = "idle"
  /\ settings = 0
  /\ master = NoHandle
  /\ replicas = <<>>
  /\ cluster_current = 0
  /\ local_current = 0
  /\ cluster_servers = <<>>
  /\ last_connected_time = 0
  /\ last_ready_time = 0
  /\ reported = "none"
  /\ last = Did("Shard")

NextRoute ==
  \/ last.op = "Shard" /\ AsyncCommandBegin({command})
  \/ AsyncCommandAttempt
  \/ AsyncCommandFail

SpecRoute == InitRoute /\ [][NextRoute]_vars

\* ------------------------------------------------- routing and teardown
\* Commands are submitted while the event thread reconciles and tears down a
\* shard whose desired set names at most the first host.
DoorArrays == {a \in InfoArrays : \A i \in DOMAIN a : a[i].host = 1}

DoorCommands == {c \in RouteCommands : c.strategy = "kDefault" /\ c.force_server_id = kAnyServer /\ ~c.allow_reads_from_master /\ c.instance_idx = kDefaultPrevInstanceIdx}

InitDoor == Constructed(DoorArrays)

NextDoor ==
  \/ \E a \in DoorArrays : SetConnectionInfo(a)
  \/ ProcessCreationBegin
  \/ ProcessCreationUpdate
  \/ ProcessStateUpdateLocked
  \/ ProcessStateUpdateNotify
  \/ Clean
  \/ HandleStateChange
  \/ AsyncCommandDestroying(DoorCommands)
  \/ AsyncCommandBegin(DoorCommands)
  \/ AsyncCommandAttempt
  \/ AsyncCommandFail

SpecDoor == InitDoor /\ [][NextDoor]_vars

\* ----------------------------------- Shard::SetCommandsBufferingSettings
SettingsValues == 1..MaxSettings

\* Lines 370-379: take mutex_ shared and hand the settings to the handle of
\* every entry of instances_ and of clean_wait_.
SetCommandsBufferingSettingsApply(s) ==
  /\ bpc = "idle"
  /\ settings' = s
  /\ buffering' = [h \in Hosts |-> IF h \in HostsOf(instances) \cup HostsOf(clean_wait) THEN s ELSE buffering[h]]
  /\ bpc' = "store"
  /\ last' = Did("SetCommandsBufferingSettingsApply")
  /\ UNCHANGED <<shardVars, current, eventVars, workerVars, commands_buffering_settings, clusterVars, readyVars>>

\* Lines 381-383: store the settings for the handles made later, release
\* mutex_.
SetCommandsBufferingSettingsStore ==
  /\ bpc = "store"
  /\ commands_buffering_settings' = settings
  /\ settings' = 0
  /\ bpc' = "idle"
  /\ last' = Did("SetCommandsBufferingSettings")
  /\ UNCHANGED <<shardVars, current, eventVars, workerVars, buffering, clusterVars, readyVars>>

\* The event thread reconciling one host while a worker changes the
\* buffering settings.
InitBuffering == Constructed(DoorArrays)

NextBuffering ==
  \/ \E a \in DoorArrays : SetConnectionInfo(a)
  \/ ProcessCreationBegin
  \/ ProcessCreationUpdate
  \/ ProcessStateUpdateLocked
  \/ ProcessStateUpdateNotify
  \/ HandleStateChange
  \/ \E s \in SettingsValues : SetCommandsBufferingSettingsApply(s)
  \/ SetCommandsBufferingSettingsStore

SpecBuffering == InitBuffering /\ [][NextBuffering]_vars

\* ================================================================ claims

\* ------------------------------------------------------- reconnection
\* The event thread keeps calling ProcessCreation and ProcessStateUpdate on
\* a shard whose desired set stays as constructed, while the handles
\* change state.
NextLive ==
  \/ ProcessCreationBegin
  \/ ProcessCreationUpdate
  \/ ProcessStateUpdateLocked
  \/ ProcessStateUpdateNotify
  \/ HandleStateChange

\* Each of the two operations is started again and again, and an operation
\* that was started runs to its end.
FairLive ==
  /\ SF_vars(ProcessCreationBegin)
  /\ WF_vars(ProcessCreationUpdate)
  /\ SF_vars(ProcessStateUpdateLocked)
  /\ WF_vars(ProcessStateUpdateNotify)

SpecLive == Init /\ [][NextLive]_vars /\ FairLive

\* ------------------------------------------- ClusterShard::AsyncCommand
\* Line 518.
ClusterMaxAttempts == Len(replicas) + 1 + 1

\* Lines 504-510: a writable or pinned command goes to one handle, which
\* accepts or refuses it.
ClusterShardAsyncCommandDirect ==
  /\ wpc = "idle"
  /\ ~command.read_only \/ command.force_server_id # kAnyServer
  /\ LET instance == ClusterShardGetAvailableServer(replicas, command, command.read_only)
     IN IF instance = kNullInstance
        THEN /\ last' = [Did("ClusterShard::AsyncCommand") EXCEPT !.ret = "false"]
             /\ tried' = {}
        ELSE /\ \E accepted \in BOOLEAN :
                  last' = [Did("ClusterShard::AsyncCommand") EXCEPT !.ret = Bool(accepted), !.offer = instance, !.accepted = accepted]
             /\ tried' = {instance}
  /\ UNCHANGED <<shardVars, current, eventVars, wpc, command, arg_idx, available_servers, attempt, idx, bufferingVars, clusterVars, readyVars>>

\* Lines 512-518: take a value of current_, compute the candidates.
ClusterShardAsyncCommandBegin ==
  /\ wpc = "idle"
  /\ command.read_only /\ command.force_server_id = kAnyServer
  /\ local_current' = cluster_current
  /\ cluster_current' = (cluster_current + 1) % ClusterModulus
  /\ cluster_servers' \in ClusterShardGetAvailableServers(master, replicas, command)
  /\ wpc' = "loop"
  /\ attempt' = 0
  /\ tried' = {}
  /\ last' = Did("ClusterShard::AsyncCommandBegin")
  /\ UNCHANGED <<shardVars, current, eventVars, command, arg_idx, available_servers, idx, bufferingVars, master, replicas, readyVars>>

\* Line 520-521: the start index of the current attempt.
ClusterStartIdx == GetStartIndex(command, attempt, IsNearestServerPing(command), command.instance_idx, local_current, Len(cluster_servers))

\* Lines 524-526: what GetInstance returns in the current attempt.
ClusterSelected == ClusterShardGetInstance(master, replicas, cluster_servers, ClusterStartIdx, attempt, IsNearestServerPing(command), command.best_dc_count, kDefaultPrevInstanceIdx)

\* Leaving ClusterShard::AsyncCommand: the locals go.
ClusterReturn ==
  /\ wpc' = "idle"
  /\ attempt' = 0
  /\ cluster_servers' = <<>>
  /\ local_current' = 0

\* The record of an attempt: the instance_idx it read, its start index, the
\* place and the pointer of the handle it selected.
DidAttempt(op) == [Did(op) EXCEPT !.att = attempt, !.before = command.instance_idx, !.start = ClusterStartIdx, !.pos = ClusterSelected.idx, !.offer = ClusterSelected.instance]

\* Line 531: instance_idx is set once an instance is selected.
ClusterWriteBack == IF ClusterSelected.instance = kNullInstance THEN command ELSE [command EXCEPT !.instance_idx = ClusterSelected.idx]

\* Lines 519-534: one iteration of the attempt loop.
ClusterShardAsyncCommandAttempt ==
  /\ wpc = "loop"
  /\ attempt < ClusterMaxAttempts
  /\ command' = ClusterWriteBack
  /\ \/ /\ ClusterSelected.instance # kNullInstance
        /\ last' = [DidAttempt("ClusterShard::AsyncCommand") EXCEPT !.ret = "true", !.accepted = TRUE]
        /\ ClusterReturn
     \/ /\ last' = DidAttempt("ClusterShard::AsyncCommandAttempt")
        /\ attempt' = attempt + 1
        /\ UNCHANGED <<wpc, cluster_servers, local_current>>
  /\ tried' = tried \cup ({ClusterSelected.instance} \ {kNullInstance})
  /\ UNCHANGED <<shardVars, current, eventVars, arg_idx, available_servers, idx, bufferingVars, master, replicas, cluster_current, readyVars>>

\* Lines 535-540: every attempt failed.
ClusterShardAsyncCommandFail ==
  /\ wpc = "loop"
  /\ attempt >= ClusterMaxAttempts
  /\ last' = [Did("ClusterShard::AsyncCommand") EXCEPT !.ret = "false"]
  /\ ClusterReturn
  /\ UNCHANGED <<shardVars, current, eventVars, command, arg_idx, tried, available_servers, idx, bufferingVars, master, replicas, cluster_current, readyVars>>

\* The health a handle can be in when a command arrives.
ClusterHandles ==
  {h \in ClusterHandle :
     /\ h.is_destroying => h.state = "kConnected" /\ ~h.is_syncing
     /\ h.is_syncing => h.state = "kConnected"}

\* The commands a ClusterShard is given.  The strategies come in two kinds
\* (IsNearestServerPing), one of each is used; a field the code does not
\* read for the command is left at its default: strategy, best_dc_count,
\* allow_reads_from_master and instance_idx of a writable or pinned
\* command, best_dc_count outside the nearest-ping strategy.
ClusterCommands ==
  {c \in Commands :
     /\ c.strategy \in {"kDefault", "kNearestServerPing"}
     /\ (~c.read_only \/ c.force_server_id # kAnyServer) => c.strategy = "kDefault" /\ c.best_dc_count = 0 /\ ~c.allow_reads_from_master /\ c.instance_idx = kDefaultPrevInstanceIdx
     /\ ~IsNearestServerPing(c) => c.best_dc_count = 0}

\* One call of ClusterShard::AsyncCommand on a shard with a master and any
\* number of replicas in any condition.  The ping latencies are read only
\* by the nearest-ping strategy, current_ and the health of the handles
\* only for a read-only command without a pin.  Under the nearest-ping
\* strategy an unusable handle is a syncing one.  current_ is read modulo
\* a number of candidates (at most NumHosts + 1): the values 0..NumHosts
\* give every remainder.
InitCluster ==
  /\ command \in ClusterCommands
  /\ master \in ClusterHandles
  /\ replicas \in UNION {[1..n -> ClusterHandles] : n \in 0..NumHosts}
  /\ cluster_current \in 0..NumHosts
  /\ ~IsNearestServerPing(command) => master.ping = 0 /\ \A k \in DOMAIN replicas : replicas[k].ping = 0
  /\ IsNearestServerPing(command) => master.state = "kConnected" /\ ~master.is_destroying /\ \A k \in DOMAIN replicas : replicas[k].state = "kConnected" /\ ~replicas[k].is_destroying
  /\ (~command.read_only \/ command.force_server_id # kAnyServer) => cluster_current = 0 /\ master.running = 0 /\ \A k \in DOMAIN replicas : replicas[k] = NoHandle
  /\ local_current = 0
  /\ cluster_servers = <<>>
  /\ last_connected_time = 0
  /\ last_ready_time = 0
  /\ reported = "none"
  /\ connection_infos = {}
  /\ instances = <<>>
  /\ clean_wait = <<>>
  /\ destroying = FALSE
  /\ prev_connected = FALSE
  /\ current = 0
  /\ epc = "idle"
  /\ add_clean_wait = <<>>
  /\ instances_changed = FALSE
  /\ new_connected = FALSE
  /\ repeated = FALSE
  /\ wpc = "idle"
  /\ arg_idx = command.instance_idx
  /\ tried = {}
  /\ available_servers = <<>>
  /\ attempt = 0
  /\ idx = 0
  /\ commands_buffering_settings = 0
  /\ buffering = [h \in Hosts |-> 0]
  /\ bpc = "idle"
  /\ settings = 0
  /\ last = Did("ClusterShard")

NextCluster ==
  \/ last.op = "ClusterShard" /\ ClusterShardAsyncCommandDirect
  \/ last.op = "ClusterShard" /\ ClusterShardAsyncCommandBegin
  \/ ClusterShardAsyncCommandAttempt
  \/ ClusterShardAsyncCommandFail

SpecCluster == InitCluster /\ [][NextCluster]_vars

\* ------------------------------------------------------------- indexing
\* One selection of each shard for any size of the vectors, any
\* best_dc_count up to beyond their size, any instance_idx, attempt number
\* and counter value.
IndexCommands ==
  [read_only : {TRUE}, strategy : {"kDefault", "kNearestServerPing"},
   force_server_id : {kAnyServer},
   allow_reads_from_master : BOOLEAN, best_dc_count : 0..(NumHosts + 2),
   instance_idx : {kDefaultPrevInstanceIdx} \cup (0..(SizeModulus - 2))]

\* instances_ with n connected entries, the first one a master.
IndexInstances(n) == [i \in 1..n |-> [info |-> [host |-> i, read_only |-> i > 1], state |-> "kConnected", is_destroying |-> FALSE, running |-> 0, ping |-> 0]]

InitIndex ==
  /\ command \in IndexCommands
  /\ \E n \in 0..NumHosts :
       /\ instances = IndexInstances(n)
       /\ replicas = [k \in 1..n |-> NoHandle]
  /\ attempt \in 0..(NumHosts + 1)
  /\ cluster_current \in 0..(SizeModulus - 1)
  /\ current = cluster_current
  /\ master = NoHandle
  /\ local_current = 0
  /\ cluster_servers = <<>>
  /\ connection_infos = {instances[i].info : i \in DOMAIN instances}
  /\ clean_wait = <<>>
  /\ destroying = FALSE
  /\ prev_connected = FALSE
  /\ epc = "idle"
  /\ add_clean_wait = <<>>
  /\ instances_changed = FALSE
  /\ new_connected = FALSE
  /\ repeated = FALSE
  /\ wpc = "idle"
  /\ arg_idx = command.instance_idx
  /\ tried = {}
  /\ available_servers = <<>>
  /\ idx = 0
  /\ commands_buffering_settings = 0
  /\ buffering = [h \in Hosts |-> 0]
  /\ bpc = "idle"
  /\ settings = 0
  /\ last_connected_time = 0
  /\ last_ready_time = 0
  /\ reported = "none"
  /\ last = Did("Index")

\* Lines 124-131: the indices one call of Shard::GetInstance reads
\* instances_ at, and available_servers at unless it may fall back.
ShardGetInstanceReads(insts, mask, may_fallback_to_any, cur) ==
  LET end == Len(insts)
      At == {Wrap(cur + i) % end : i \in 0..(end - 1)}
  IN {<<Len(insts), k>> : k \in At} \cup (IF may_fallback_to_any THEN {} ELSE {<<Len(mask), k>> : k \in At})

\* Lines 168-190: the reads of one attempt of Shard::AsyncCommand.  Line 190
\* reads available_servers[idx] only for a selected instance and an idx
\* below the size.
ShardIndices ==
  /\ last.op = "Index"
  /\ LET mask == GetAvailableServers(instances, command, ~command.read_only \/ command.allow_reads_from_master, command.read_only)
         cur == Wrap(current + 1)
         sel == GetInstance(instances, mask, MayFallbackToAny, SkipIdx, command.read_only, cur, idx)
     IN last' = [Did("Shard::Indices") EXCEPT
                   !.att = attempt,
                   !.reads = ShardGetInstanceReads(instances, mask, MayFallbackToAny, cur)
                             \cup (IF sel.instance # kNullInstance /\ sel.idx < Len(mask) THEN {<<Len(mask), sel.idx>>} ELSE {}),
                   !.divisors = IF Len(instances) > 0 THEN {Len(instances)} ELSE {}]
  /\ UNCHANGED <<shardVars, current, eventVars, workerVars, bufferingVars, clusterVars, readyVars>>

\* Lines 649-651: the indices one call of ClusterShard::GetInstance reads
\* the candidate vector at.
ClusterShardGetInstanceReads(insts, start_idx, end) == {<<Len(insts), Wrap(start_idx + i) % end>> : i \in 0..(end - 1)}

\* Lines 692-702, 650: the divisors of the modulo operations of one
\* attempt: the reduced count, the window of the first try under the
\* nearest-ping strategy, and end when the loop body runs.
ClusterShardDivisors(control, att, prev_instance_idx, servers_count, end) ==
  LET count == StartCount(control, att, prev_instance_idx, servers_count)
  IN {count}
     \cup (IF IsNearestServerPing(control) /\ prev_instance_idx = kDefaultPrevInstanceIdx THEN {StartBest(control, count)} ELSE {})
     \cup (IF end > 0 THEN {end} ELSE {})

\* Lines 513-527: the reads of one attempt of ClusterShard::AsyncCommand.
ClusterShardIndices ==
  /\ last.op = "Index"
  /\ \E servers \in ClusterShardGetAvailableServers(master, replicas, command) :
       LET end == GetInstanceEnd(servers, attempt, IsNearestServerPing(command), command.best_dc_count)
           divisors == ClusterShardDivisors(command, attempt, command.instance_idx, Len(servers), end)
       IN IF 0 \in divisors
          THEN last' = [Did("ClusterShard::Indices") EXCEPT !.att = attempt, !.divisors = divisors]
          ELSE LET start_idx == GetStartIndex(command, attempt, IsNearestServerPing(command), command.instance_idx, cluster_current, Len(servers))
               IN last' = [Did("ClusterShard::Indices") EXCEPT
                             !.att = attempt,
                             !.start = start_idx,
                             !.reads = ClusterShardGetInstanceReads(servers, start_idx, end),
                             !.divisors = divisors]
  /\ UNCHANGED <<shardVars, current, eventVars, workerVars, bufferingVars, clusterVars, readyVars>>

NextIndex ==
  \/ ShardIndices
  \/ ClusterShardIndices

SpecIndex == InitIndex /\ [][NextIndex]_vars

Eligible(e) == e.state = "kConnected" /\ ~e.is_destroying

Offered == last.offer # kNullInstance

OfferedEntry == instances[last.offer + 1]

\* ---- C1 (SpecDoor)
\* C1: Closed-door.  Clean sets destroying, nothing resets it, and while it
\* is set every step of AsyncCommand is an immediate return of false that
\* offers the command to no handle - even when reconciliation has filled
\* instances again.
C1_ClosedDoor ==
  [][/\ last'.op = "Clean" => destroying'
     /\ destroying =>
          /\ destroying'
          /\ last'.op \in {"AsyncCommand", "AsyncCommandBegin", "AsyncCommandAttempt"} =>
               /\ last'.ret = "false"
               /\ last'.offer = kNullInstance
               /\ ~last'.accepted
               /\ wpc' = "idle"]_vars

C1_Witness ==
  /\ destroying
  /\ last.op = "AsyncCommand"
  /\ last.ret = "false"
  /\ instances # <<>>
  /\ Eligible(instances[1])

\* ---- C2 (SpecRoute)
\* C2: Role filtering.  A writable command is never offered to an instance
\* whose info.read_only is true, on any attempt.
C2_RoleFiltering == (Offered /\ ~command.read_only) => ~OfferedEntry.info.read_only

\* A writable command offered on a fallback attempt while a read-only
\* instance is connected and idle.
C2_Witness ==
  /\ Offered
  /\ ~command.read_only
  /\ last.att >= 1
  /\ \E i \in DOMAIN instances : instances[i].info.read_only /\ Eligible(instances[i]) /\ instances[i].running < OfferedEntry.running

\* ---- C3 (SpecRoute)
\* C3: Pin respected.  A command pinned to a server id is offered only to
\* the instance with that id, on every attempt.
C3_PinRespected == (Offered /\ command.force_server_id # kAnyServer) => GetServerId(OfferedEntry) = command.force_server_id

\* The pinned instance refused, was offered the command again, and another
\* instance could have taken it.
C3_Witness ==
  /\ Offered
  /\ command.force_server_id # kAnyServer
  /\ last.att >= 1
  /\ \E i \in DOMAIN instances : i # last.offer + 1 /\ Eligible(instances[i]) /\ (command.read_only \/ ~instances[i].info.read_only)

\* ---- C4 (SpecRoute)
\* C4: AsyncCommand returns true iff a handle accepted the command; it
\* returns at the first acceptance; the attempts of a call are numbered
\* 0..|instances|, so at most |instances| + 1 are made.
C4_TrueIffAccepted ==
  /\ last.op = "AsyncCommand" => (last.ret = "true" <=> last.accepted)
  /\ last.accepted => (last.op = "AsyncCommand" /\ wpc = "idle")
  /\ last.att <= Len(instances)
  /\ wpc = "loop" => attempt <= Len(instances) + 1

\* Accepted on the last possible attempt, after every earlier one failed.
C4_Witness ==
  /\ last.op = "AsyncCommand"
  /\ last.ret = "true"
  /\ last.att = Len(instances)
  /\ Len(instances) >= 2

\* ---- C8 (SpecRoute)
\* C8: No immediate self-retry.  The instance selected on attempt 0 is not
\* the one at the index the caller passed in command.instance_idx.
C8_NoSelfRetry == (Offered /\ last.att = 0) => last.offer # arg_idx

\* Attempt 0 went to another instance although the one the caller just
\* tried is connected and strictly less loaded.
C8_Witness ==
  /\ Offered
  /\ last.att = 0
  /\ arg_idx >= 0
  /\ arg_idx < Len(instances)
  /\ Eligible(instances[arg_idx + 1])
  /\ instances[arg_idx + 1].running < OfferedEntry.running
  /\ command.read_only
  /\ instances[arg_idx + 1].info.read_only

\* ---- C9 (SpecRoute)
\* The instance at index k passes GetInstance's filter and is usable, for
\* the arguments the running attempt passes to GetInstance.
C9_Candidate(k) ==
  /\ k # SkipIdx
  /\ command.read_only \/ ~instances[k + 1].info.read_only
  /\ MayFallbackToAny \/ available_servers[k + 1] = 1
  /\ Eligible(instances[k + 1])

\* The place of index k in the round-robin order that starts at
\* (current + 1) mod |instances|.
C9_Rank(k) == (k + Len(instances) - ((current + 1) % Len(instances))) % Len(instances)

\* C9: Least-loaded selection.  Every attempt offers the command to a
\* candidate with the minimum running-command count, the first such in
\* round-robin order from (current + 1) mod |instances|, and offers it to
\* none iff there is no candidate.
C9_LeastLoaded ==
  [][(wpc = "loop" /\ last'.att = attempt) =>
       LET cands == {k \in 0..(Len(instances) - 1) : C9_Candidate(k)}
           o == last'.offer
       IN  /\ o = kNullInstance <=> cands = {}
           /\ o # kNullInstance =>
                /\ o \in cands
                /\ \A j \in cands \ {o} :
                     \/ instances[o + 1].running < instances[j + 1].running
                     \/ /\ instances[o + 1].running = instances[j + 1].running
                        /\ C9_Rank(o) < C9_Rank(j)]_vars

\* A tie between two candidates went to the one at the higher index, the
\* first in round-robin order.
C9_Witness ==
  /\ Offered
  /\ last.offer = 1
  /\ last.att = 0
  /\ arg_idx = kDefaultPrevInstanceIdx
  /\ Len(instances) = 2
  /\ Eligible(instances[1])
  /\ instances[1].running = instances[2].running
  /\ command.read_only
  /\ command.force_server_id = kAnyServer
  /\ command.strategy = "kDefault"
  /\ instances[1].info.read_only
  /\ instances[2].info.read_only

\* ---- C10 (SpecRoute)
\* C10: a command is offered only to an instance that is Connected and not
\* destroying when it is selected; so a writable command returns false
\* when no instance that is not read-only is Connected and not destroying.
C10_OnlyUsable ==
  /\ Offered => Eligible(OfferedEntry)
  /\ (/\ last.op = "AsyncCommand"
      /\ ~command.read_only
      /\ \A i \in DOMAIN instances : ~instances[i].info.read_only => ~Eligible(instances[i]))
       => last.ret = "false"

\* The only master is being destroyed, a replica is connected, and the
\* writable command came back false.
C10_Witness ==
  /\ last.op = "AsyncCommand"
  /\ last.ret = "false"
  /\ ~command.read_only
  /\ Len(instances) = 2
  /\ ~instances[1].info.read_only
  /\ instances[1].is_destroying
  /\ instances[2].info.read_only
  /\ Eligible(instances[2])

\* ---- C5 (Spec)
\* C5: Disjointness.  No ConnectionInfo has an entry in instances and an
\* entry in clean_wait at the same time.
C5_Disjoint == HostsOf(instances) \cap HostsOf(clean_wait) = {}

\* A reconcile_create has completed with one host serving and another one
\* waiting to connect.
C5_Witness ==
  /\ last.op = "ProcessCreation"
  /\ instances # <<>>
  /\ clean_wait # <<>>

\* ---- C6 (Spec)
\* C6: Membership.  After every completed ProcessCreation each entry of
\* instances and of clean_wait has its info in connection_infos.
C6_Membership == last.op = "ProcessCreation" => (HostsOf(instances) \cup HostsOf(clean_wait)) \subseteq KeyOf(connection_infos)

C11_RefusalMovesOn ==
  (/\ last.op = "AsyncCommand"
   /\ last.ret = "false"
   /\ ~destroying
   /\ command.force_server_id = kAnyServer)
    => \A k \in 0..(Len(instances) - 1) :
         (Eligible(instances[k + 1]) /\ (command.read_only \/ ~instances[k + 1].info.read_only)) => k \in tried

\* ---- C12 (SpecRoute)
\* C12: Pinned id missing.  When no instance has the server id the command
\* is pinned to, AsyncCommand returns false, offers the command to no
\* instance and leaves command.instance_idx as the caller passed it.
C12_PinnedMissing ==
  (/\ last.op = "AsyncCommand"
   /\ command.force_server_id # kAnyServer
   /\ \A i \in DOMAIN instances : GetServerId(instances[i]) # command.force_server_id)
    => /\ last.ret = "false"
       /\ tried = {}
       /\ command.instance_idx = arg_idx

\* ---- C13 (SpecRoute)
\* The role of instances_[k] matches the command: a replica for a read-only
\* command, a master for a writable one or when reads from the master are
\* allowed.
C13_RoleMatches(k) ==
  IF instances[k + 1].info.read_only THEN command.read_only
  ELSE ~command.read_only \/ command.allow_reads_from_master

\* The role-matching instances with a strictly lower ping than instances_[k].
C13_Nearer(k) == {j \in 0..(Len(instances) - 1) : C13_RoleMatches(j) /\ instances[j + 1].ping < instances[k + 1].ping}

\* C13: Nearest-ping pick.  For an unpinned command with strategy
\* kNearestServerPing or kLocalDcConductor, attempt 0 offers the command
\* only to a role-matching instance, and with best_dc_count = n > 0 only to
\* one of the n of lowest ping among them.
C13_NearestPing ==
  (Offered /\ last.att = 0 /\ ReadsPing(command)) =>
     /\ C13_RoleMatches(last.offer)
     /\ command.best_dc_count > 0 => Cardinality(C13_Nearer(last.offer)) < command.best_dc_count

\* Attempt 0 went to the nearest replica although a farther one, also
\* connected, has fewer running commands.
C13_Witness ==
  /\ Offered
  /\ last.att = 0
  /\ ReadsPing(command)
  /\ command.best_dc_count = 1
  /\ \E j \in 0..(Len(instances) - 1) :
       /\ C13_RoleMatches(j)
       /\ Eligible(instances[j + 1])
       /\ j # arg_idx
       /\ instances[j + 1].ping > OfferedEntry.ping
       /\ instances[j + 1].running < OfferedEntry.running

\* ---- C14 (Spec)
\* C14: Signal emission outside the lock.  signal_instance_ready_ and the
\* readiness callback are emitted only by steps that do not hold mutex_ in
\* exclusive mode.
C14_EmitsUnlocked == (last.sig # <<>> \/ last.cb # "none") => ~HoldsUniqueLock(last.op)

\* ---- C15 (SpecBuffering)
\* C15: set_buffering under concurrency.  Whenever neither
\* SetCommandsBufferingSettings nor ProcessCreation is running and settings
\* s have been stored, the handle of every entry of instances and of
\* clean_wait has s as the settings last applied to it.
C15_BufferingApplied ==
  (epc = "idle" /\ bpc = "idle" /\ commands_buffering_settings # 0)
    => \A h \in HostsOf(instances) \cup HostsOf(clean_wait) : buffering[h] = commands_buffering_settings

\* ---- C16 (Spec)
\* The positions of clean_wait whose handle is Connected.
C16_Ready == {i \in DOMAIN clean_wait : clean_wait[i].state = "kConnected"}

C17_Demotion ==
  [][/\ (/\ last'.op = "ProcessStateUpdateLocked"
         /\ Len(instances) = 1
         /\ clean_wait = <<>>
         /\ instances[1].state # "kConnected") =>
          /\ instances' = <<>>
          /\ clean_wait' = <<instances[1]>>
     /\ (epc = "notify" /\ epc' = "idle" /\ prev_connected /\ ~new_connected) =>
          last'.cb = "false"]_vars

\* ---- C18 (Spec)
\* The number of entries of a vector of ConnectionStatus for host h.
C18_Count(entries, h) == Cardinality({i \in DOMAIN entries : entries[i].info.host = h})

\* C18: reconcile_create coverage.  When ProcessCreation returns, every
\* ConnectionInfo of connection_infos has exactly one entry in instances and
\* clean_wait together; the handles it made are for infos that had no entry,
\* and they are appended to clean_wait, none to instances.
C18_Coverage ==
  [][last'.op = "ProcessCreation" =>
       /\ \A info \in connection_infos' : C18_Count(instances', info.host) + C18_Count(clean_wait', info.host) = 1
       /\ \A i \in DOMAIN add_clean_wait :
            /\ add_clean_wait[i].info.host \notin HostsOf(instances) \cup HostsOf(clean_wait)
            /\ clean_wait'[Len(clean_wait) + i] = add_clean_wait[i]
            /\ add_clean_wait[i].info.host \notin HostsOf(instances')
       /\ Len(clean_wait') = Len(clean_wait) + Len(add_clean_wait)
       /\ HostsOf(instances') \subseteq HostsOf(instances)]_vars

\* A ProcessCreation that made a handle for the one info that had none,
\* next to a serving instance.
C18_Witness ==
  /\ last.op = "ProcessCreation"
  /\ Cardinality(connection_infos) = 2
  /\ Len(instances) = 1
  /\ Len(clean_wait) = 1
  /\ clean_wait[1].state = "kInit"

\* ---- C19 (Spec)
\* The desired infos for the host of instances[i].
C19_Desired(i) == {c \in connection_infos : c.host = instances[i].info.host}

\* The positions of instances whose info has left connection_infos.
C19_Gone == {i \in DOMAIN instances : C19_Desired(i) = {}}

\* The positions of instances whose read_only flag differs from the desired
\* info of the same host.
C19_Flipped == {i \in DOMAIN instances : \E c \in C19_Desired(i) : c.read_only # instances[i].info.read_only}

\* C19: ProcessCreation returns true iff it removed an entry of instances or
\* changed the read_only flag of one; an entry whose flag alone differs
\* stays in instances, same handle, with the desired flag; the handles made
\* do not count.
C19_ReturnValue ==
  [][last'.op = "ProcessCreation" =>
       /\ last'.ret = "true" <=> (C19_Gone # {} \/ C19_Flipped # {})
       /\ Len(instances') = Len(instances) - Cardinality(C19_Gone)
       /\ \A i \in C19_Flipped : \E j \in DOMAIN instances' :
            /\ instances'[j] = [instances[i] EXCEPT !.info.read_only = ~instances[i].info.read_only]
            /\ instances'[j].info \in connection_infos
       /\ \A i \in DOMAIN instances \ (C19_Gone \cup C19_Flipped) : \E j \in DOMAIN instances' : instances'[j] = instances[i]]_vars

\* A ProcessCreation that returned true without removing anything: both
\* hosts still serve, so a flag was changed.
C19_Witness ==
  /\ last.op = "ProcessCreation"
  /\ last.ret = "true"
  /\ Len(instances) = 2

\* ---- C20 (Spec)
\* C20: a throwing readiness callback.  When the callback throws,
\* ProcessStateUpdate still returns, with the value of instances_changed,
\* leaves instances and clean_wait as the locked block left them and sets
\* prev_connected to the new readiness.
C20_CallbackThrows ==
  [][(epc = "notify" /\ epc' = "idle" /\ last'.exc # "none") =>
       /\ last'.exc = "caught"
       /\ last'.ret = Bool(instances_changed)
       /\ UNCHANGED <<instances, clean_wait>>
       /\ prev_connected' = new_connected]_vars

\* ------------------------------------------------ claims on ClusterShard
\* The call of ClusterShard::AsyncCommand has returned.
ClusterReturned == last.op = "ClusterShard::AsyncCommand"

\* C21: a writable command is offered to the master's handle and to no
\* other, once; the call returns what the master's handle answered, and
\* current_ keeps its value.
C21_WritableRouting ==
  [][(~command.read_only /\ last.op = "ClusterShard") =>
       /\ last'.op = "ClusterShard::AsyncCommand"
       /\ last'.offer = kMasterPtr
       /\ tried' = {kMasterPtr}
       /\ last'.ret = Bool(last'.accepted)
       /\ wpc' = "idle"
       /\ cluster_current' = cluster_current]_vars

C21_Witness ==
  /\ ClusterReturned
  /\ ~command.read_only
  /\ command.force_server_id = kAnyServer
  /\ Len(replicas) = NumHosts
  /\ last.offer = kMasterPtr
  /\ last.ret = "false"

\* C22: a command with a pin, writable or not, is offered only to the
\* handle whose server id is the pin; when no handle of the shard has that
\* id the call returns false and offers the command to no handle.
C22_PinRespected ==
  (ClusterReturned /\ command.force_server_id # kAnyServer) =>
     /\ last.offer # kNullInstance => ClusterServerId(last.offer) = command.force_server_id
     /\ (\A ptr \in 0..Len(replicas) : ClusterServerId(ptr) # command.force_server_id) => last.ret = "false" /\ last.offer = kNullInstance

\* The command takes the read-only path without a pin (lines 512-540).
ClusterReadPath == command.read_only /\ command.force_server_id = kAnyServer

\* The latest step was an attempt of the loop that selected a handle.
ClusterOffered == last.att >= 0 /\ last.offer # kNullInstance

\* C23: for a read-only command without a pin, a strategy that is not
\* nearest-ping and allow_reads_from_master off, the master is offered the
\* command only once every usable replica has been offered it in the same
\* call.
C23_MasterLast ==
  (ClusterReadPath /\ ~IsNearestServerPing(command) /\ ~command.allow_reads_from_master /\ ClusterOffered /\ last.offer = kMasterPtr) =>
     \A k \in 1..Len(replicas) : ClusterEligible(replicas[k]) => k \in tried

\* C24: for a read-only command without a pin on its first try, with
\* allow_reads_from_master off, attempt 0 selects a replica whenever some
\* replica is usable, whatever the numbers of running commands.
C24_FirstPoolExcludesMaster ==
  (ClusterReadPath /\ arg_idx = kDefaultPrevInstanceIdx /\ ~command.allow_reads_from_master /\ last.att = 0 /\ \E k \in 1..Len(replicas) : ClusterEligible(replicas[k])) =>
     last.offer \in 1..Len(replicas)

\* C25: when a read-only command without a pin is submitted again with
\* instance_idx = p, the first handle the call selects is at an index other
\* than p whenever a candidate at another index is usable.
C25_NotRepeated ==
  [][(wpc = "loop" /\ tried = {} /\ arg_idx \in 0..(Len(cluster_servers) - 1) /\ last'.offer # kNullInstance
      /\ \E q \in 0..(Len(cluster_servers) - 1) : q # arg_idx /\ ClusterEligible(HolderGet(master, replicas, cluster_servers[q + 1]))) =>
       last'.pos # arg_idx]_vars

\* C26: on the read-only path without a pin, an attempt that selects no
\* handle or whose handle refuses leaves command.instance_idx as it was,
\* every attempt reads the instance_idx the caller passed, and a call that
\* returns false leaves instance_idx as passed.
C26_WriteBackOnSuccess ==
  ClusterReadPath =>
    /\ last.att >= 0 => last.before = arg_idx
    /\ last.op = "ClusterShard::AsyncCommandAttempt" => command.instance_idx = arg_idx
    /\ (ClusterReturned /\ last.ret = "false") => command.instance_idx = arg_idx

\* ------------------------------------------------- claims on the fallback
\* The availability mask the call computed (lines 168-171).
Mask == GetAvailableServers(instances, command, ~command.read_only \/ command.allow_reads_from_master, command.read_only)

\* C27: an instance whose bit in the availability mask is not set is
\* selected only on an attempt after the first and only for a command
\* without a pin; on attempt 0 the selected instance has its bit set.
C27_FallbackGating ==
  (last.att >= 0 /\ Offered /\ Mask[last.offer + 1] = 0) =>
     last.att >= 1 /\ command.force_server_id = kAnyServer

C27_Witness ==
  /\ last.att >= 1
  /\ Offered
  /\ Mask[last.offer + 1] = 0
  /\ command.read_only
  /\ ~command.allow_reads_from_master
  /\ ~OfferedEntry.info.read_only

\* C30 (as stated): on attempt 0, for a command pinned to a server that no
\* instance has (the availability mask is all zero) and with a usable
\* instance to select, the "falling back to any server" warning is logged.
C30_WarnsOnAttemptZero ==
  (last.att = 0 /\ command.force_server_id # kAnyServer
   /\ (\A i \in DOMAIN instances : GetServerId(instances[i]) # command.force_server_id)
   /\ (\A i \in DOMAIN instances : Mask[i] = 0)
   /\ \E i \in DOMAIN instances : Eligible(instances[i]) /\ i - 1 # arg_idx /\ (command.read_only \/ ~instances[i].info.read_only)) =>
     last.warn

\* C30 (amended): the warning is logged only on an attempt after the first,
\* for a command without a pin, about an instance whose bit in the mask is
\* not set; it is never logged on attempt 0 nor for a pinned command.
C30_WarnsOnlyOnFallback ==
  last.warn => last.att >= 1 /\ command.force_server_id = kAnyServer /\ Offered /\ Mask[last.offer + 1] = 0

C30_Witness ==
  /\ last.warn
  /\ last.att = 1
  /\ last.accepted

\* ----------------------------------------- claims on the nearest-ping window
\* The ping latency of the handle at a place of the candidate vector.
PingAt(q) == HolderGet(master, replicas, cluster_servers[q + 1]).ping

\* The first places of the candidate vector hold, in ascending order of
\* ping, handles with a ping not above that of any other place below len.
LowestFirst(places, len) ==
  /\ \A q \in 0..(places - 2) : PingAt(q) <= PingAt(q + 1)
  /\ \A q \in 0..(places - 1) : \A r \in places..(len - 1) : PingAt(q) <= PingAt(r)

\* The command reads with a nearest-ping strategy and a window.
NearestWindow == ClusterReadPath /\ IsNearestServerPing(command) /\ command.best_dc_count > 0

\* Attempt 0 selects inside the window; a later attempt selects a handle
\* whenever any place of the whole vector holds a usable one.
WindowThenAll ==
  /\ (last.att = 0 /\ ClusterOffered) => last.pos < Min(command.best_dc_count, Len(replicas) + 1)
  /\ (last.att >= 1 /\ \E ptr \in 0..Len(replicas) : ClusterEligible(HolderGet(master, replicas, ptr))) => ClusterOffered

\* C28 (as stated): with a nearest-ping strategy and best_dc_count = n > 0,
\* attempt 0 selects among the first min(n, |candidates|) places of the
\* candidate vector, which hold the lowest-ping candidates in ascending
\* order; later attempts select among the whole vector.
C28_LowestOfCandidates ==
  NearestWindow =>
    /\ WindowThenAll
    /\ wpc = "loop" => LowestFirst(Min(command.best_dc_count, Len(cluster_servers)), Len(cluster_servers))

\* C28 (amended): as stated when allow_reads_from_master is on.  When it is
\* off the vector is the replicas with the master appended: the first
\* min(n, |replicas|) places hold the lowest-ping replicas in ascending
\* order, and the master, whatever its ping, is the last place.
C28_NearestWindow ==
  NearestWindow =>
    /\ WindowThenAll
    /\ (wpc = "loop" /\ command.allow_reads_from_master) => LowestFirst(Min(command.best_dc_count, Len(cluster_servers)), Len(cluster_servers))
    /\ (wpc = "loop" /\ ~command.allow_reads_from_master) =>
         /\ cluster_servers[Len(cluster_servers)] = kMasterPtr
         /\ LowestFirst(Min(command.best_dc_count, Len(replicas)), Len(replicas))

C28_Witness ==
  /\ NearestWindow
  /\ ~command.allow_reads_from_master
  /\ wpc = "loop"
  /\ Len(replicas) = NumHosts
  /\ command.best_dc_count = 1
  /\ replicas[1].ping > replicas[2].ping
  /\ replicas[1].ping > master.ping
  /\ cluster_servers[1] = 2
  /\ last.att = 1
  /\ ClusterOffered
  /\ last.pos >= command.best_dc_count

\* C29: on the read-only path without a pin, the handle an attempt offers
\* the command to is connected, not destroying and not syncing, lies in the
\* attempt's window, and no usable handle of the window has fewer running
\* commands; among those with as few, it is the first in rotation from
\* start_idx.
C29_EligibleLeastLoaded ==
  [][(wpc = "loop" /\ last'.att = attempt /\ last'.offer # kNullInstance) =>
       LET end == GetInstanceEnd(cluster_servers, attempt, IsNearestServerPing(command), command.best_dc_count)
           At(q) == HolderGet(master, replicas, cluster_servers[q + 1])
           Rank(q) == (q + end - (last'.start % end)) % end
       IN /\ last'.pos \in 0..(end - 1)
          /\ cluster_servers[last'.pos + 1] = last'.offer
          /\ ClusterEligible(At(last'.pos))
          /\ \A q \in 0..(end - 1) :
               ClusterEligible(At(q)) =>
                 \/ At(last'.pos).running < At(q).running
                 \/ At(last'.pos).running = At(q).running /\ Rank(last'.pos) <= Rank(q)]_vars

C29_Witness ==
  /\ ClusterReadPath
  /\ ClusterOffered
  /\ last.att = 0
  /\ \E ptr \in 0..Len(replicas) :
       /\ ~ClusterEligible(HolderGet(master, replicas, ptr))
       /\ HolderGet(master, replicas, ptr).running < HolderGet(master, replicas, last.offer).running
  /\ \E ptr \in 0..Len(replicas) :
       /\ ptr # last.offer
       /\ ClusterEligible(HolderGet(master, replicas, ptr))
       /\ HolderGet(master, replicas, ptr).running = HolderGet(master, replicas, last.offer).running

\* ------------------------------------------------ claims on exhaustion
\* C37: a read-only call of ClusterShard::AsyncCommand without a pin returns
\* false only when every usable candidate (replica or master) was offered
\* the command during the call.
C37_Exhaustion ==
  (ClusterReadPath /\ ClusterReturned /\ last.ret = "false") =>
     \A ptr \in 0..Len(replicas) : ClusterEligible(HolderGet(master, replicas, ptr)) => ptr \in tried

\* C33: once Clean has run, instances_ and clean_wait_ stay empty whatever
\* ProcessCreation and ProcessStateUpdate calls follow.
C33_TeardownFinal == destroying => instances = <<>> /\ clean_wait = <<>>

\* ------------------------------------------------ claims on reconciling
\* The read_only flag connection_infos_ holds for a host.
DesiredFlag(host) == (CHOOSE c \in connection_infos : c.host = host).read_only

\* C32: a ProcessStateUpdate that runs after a completed ProcessCreation,
\* with no SetConnectionInfo in between, leaves in instances_ only entries
\* whose read_only flag is the one connection_infos_ holds for their info,
\* the entries it promotes from clean_wait_ included, and
\* signal_instance_ready_ carries that flag.
C32_RoleFresh ==
  [][(last.op = "ProcessCreation" /\ last'.op = "ProcessStateUpdateLocked") =>
       /\ \A i \in DOMAIN instances' :
            InDesiredSet(instances'[i]) => instances'[i].info.read_only = DesiredReadOnly(instances'[i])
       /\ \A k \in DOMAIN last'.sig :
            (\E c \in connection_infos : c.host = last'.sig[k][1]) => last'.sig[k][2] = DesiredFlag(last'.sig[k][1])]_vars

\* ------------------------------------------------ claims on readiness
\* C31: ProcessStateUpdate sets last_ready_time_ only in a call before
\* which instances_ was not empty and after which it is empty; it does not
\* set it in a call that leaves an entry in instances_.
C31_ReadyTimeOnlyOnLoss ==
  [][last'.ready => instances # <<>> /\ instances' = <<>>]_vars

\* C35: two consecutive calls of ready_change_callback_ carry different
\* values, and a call with value v is made by a ProcessStateUpdate whose
\* locked block left (instances_ not empty) = v.
C35_Alternation ==
  [][last'.cb # "none" =>
       /\ last'.cb # reported
       /\ epc = "notify"
       /\ last'.cb = Bool(new_connected)]_vars

\* ------------------------------------------------ claims on reconnection
\* The entries instances_ and clean_wait_ hold for a host.
EntriesOf(host) == {instances[i] : i \in {j \in DOMAIN instances : instances[j].info.host = host}} \cup {clean_wait[i] : i \in {j \in DOMAIN clean_wait : clean_wait[j].info.host = host}}

\* ProcessCreation has just put a new handle for the host into clean_wait_,
\* and no entry in a terminal state is left for it.
FreshInCleanWait(host) ==
  /\ last.op = "ProcessCreation"
  /\ \E i \in DOMAIN clean_wait : clean_wait[i].info.host = host /\ clean_wait[i].state = "kInit"
  /\ \A e \in EntriesOf(host) : ~IsTerminal(e)

C36_IndexSafety ==
  last.op \in {"Shard::Indices", "ClusterShard::Indices"} =>
    /\ \A r \in last.reads : 0 <= r[2] /\ r[2] < r[1]
    /\ 0 \notin last.divisors
    /\ last.op = "ClusterShard::Indices" => last.start \in 0..Len(replicas)

C36_Witness ==
  /\ last.op = "ClusterShard::Indices"
  /\ replicas = <<>>
  /\ IsNearestServerPing(command)
  /\ command.best_dc_count > 1
  /\ command.instance_idx = SizeModulus - 2
  /\ attempt = 1
  /\ cluster_current = SizeModulus - 1
  /\ last.reads = {<<1, 0>>}

====
